---- MODULE Spec2Model ----
(***************************************************************************)
(* ArcLog single-dispatch serializer (arclog.sd).                          *)
(*                                                                         *)
(* The catalog TYPEMAP of (recognizer, converter) pairs is validated and   *)
(* registered on a functools.singledispatch function `serialize`; calls    *)
(* resolve a converter by the class of the value, and the undecorated      *)
(* body of `serialize` scans TYPEMAP when only `object` resolves.          *)
(*                                                                         *)
(* The interpreter is CPython >= 3.12 (arclog/types/aliases.py uses the    *)
(* `type` statement): singledispatch.register accepts unions of classes,   *)
(* and runtime-checkable protocol classes take part in dispatch as         *)
(* implicit abstract bases of the classes that carry their members.        *)
(***************************************************************************)
EXTENDS Integers, Sequences, FiniteSets, TLC

\* ------------------------------------------------------------------ bounds
\* serialize calls started in one behaviour
MaxCalls == 2

\* threads calling serialize
Threads == {"t1", "t2"}

\* ------------------------------------------------------------ small helpers
Range(s) == {s[n] : n \in 1..Len(s)}

\* position of the first element of s equal to e, 0 when absent
RECURSIVE IndexFrom(_, _, _)
IndexFrom(s, e, n) ==
    IF n > Len(s) THEN 0
    ELSE IF s[n] = e THEN n
    ELSE IndexFrom(s, e, n + 1)

IndexOf(s, e) == IndexFrom(s, e, 1)

\* ------------------------------------------------------- declared types
\* the value of fn.__annotations__['obj']: a class, a union of classes,
\* something that is not a class (a parameterised alias), or nothing
ClassAnn(c) == [kind |-> "class", members |-> <<c>>]
UnionAnn(cs) == [kind |-> "union", members |-> cs]
AliasAnn == [kind |-> "alias", members |-> <<>>]
NoAnn == [kind |-> "missing", members |-> <<>>]

\* every recognizer of serializers.py declares `obj: Any`
Recognizers ==
    {"use_type_default", "use_builtin_default", "use_namedtuple_default",
     "use_set_default", "use_enum_default", "use_enum_meta_default",
     "use_enum_type_default", "use_int_enum_default", "use_dataclass_default"}

\* the declared type of parameter `obj` of each function
Declared(fn) ==
    CASE fn = "type_default" -> ClassAnn("type")
      [] fn = "builtin_default" ->
            UnionAnn(<<"int", "float", "bool", "str", "list", "dict", "tuple">>)
      [] fn = "namedtuple_default" -> ClassAnn("NamedTupleProtocol")
      [] fn = "set_default" -> ClassAnn("set")
      [] fn = "enum_default" -> ClassAnn("Enum")
      [] fn = "enum_meta_default" -> ClassAnn("EnumType")
      [] fn = "enum_type_default" -> ClassAnn("EnumType")
      [] fn = "int_enum_default" -> ClassAnn("IntEnum")
      [] fn = "dataclass_default" -> ClassAnn("DataclassProtocol")
      [] fn \in Recognizers -> ClassAnn("Any")
      \* catalog extensions
      [] fn = "ext_a" -> AliasAnn
      [] fn = "ext_b" -> AliasAnn
      [] fn \in {"use_ext_a", "use_ext_b", "use_plain"} -> ClassAnn("Any")
      [] fn = "plain_default" -> NoAnn
      [] fn = "use_untyped" -> NoAnn
      [] fn = "untyped_default" -> ClassAnn("Plain")
      [] OTHER -> NoAnn

\* the functions of the catalogs
Converters ==
    {"type_default", "builtin_default", "namedtuple_default", "set_default",
     "enum_default", "enum_meta_default", "enum_type_default", "int_enum_default",
     "dataclass_default", "ext_a", "ext_b", "plain_default", "untyped_default"}

AllRecognizers == Recognizers \cup {"use_ext_a", "use_ext_b", "use_plain", "use_untyped"}

\* fn.__annotations__['obj'], tabulated
AnnotationTable == [fn \in Converters \cup AllRecognizers |-> Declared(fn)]

Annotation(fn) == AnnotationTable[fn]

\* ------------------------------------------------------------- the catalog
Pair(k, v) == [k |-> k, v |-> v]

\* TYPEMAP as _get_typemap builds it: the use_* functions in the order the
\* module defines them, each with the function named without the prefix
ReferenceCatalog ==
    << Pair("use_type_default", "type_default"),
       Pair("use_builtin_default", "builtin_default"),
       Pair("use_namedtuple_default", "namedtuple_default"),
       Pair("use_set_default", "set_default"),
       Pair("use_enum_default", "enum_default"),
       Pair("use_enum_meta_default", "enum_meta_default"),
       Pair("use_enum_type_default", "enum_type_default"),
       Pair("use_int_enum_default", "int_enum_default"),
       Pair("use_dataclass_default", "dataclass_default") >>

\* pairs added to the mutable mapping before registration
Extensions ==
    { <<>>,
      << Pair("use_ext_b", "ext_b"), Pair("use_ext_a", "ext_a") >>,
      << Pair("use_plain", "plain_default") >>,
      << Pair("use_ext_a", "ext_a"), Pair("use_untyped", "untyped_default") >>,
      << Pair("use_untyped", "plain_default"), Pair("use_ext_b", "ext_b") >> }

Catalogs == {ReferenceCatalog \o e : e \in Extensions}

\* ------------------------------------------------------ classes and values
\* __mro__ of the class of each value of the universe
Mro(cls) ==
    CASE cls = "Point" -> <<"Point", "tuple", "object">>
      [] cls = "Color" -> <<"Color", "Enum", "object">>
      [] cls = "Level" -> <<"Level", "IntEnum", "int", "ReprEnum", "Enum", "object">>
      [] cls = "StrColor" -> <<"StrColor", "str", "ReprEnum", "Enum", "object">>
      [] cls = "EnumType" -> <<"EnumType", "type", "object">>
      [] cls = "BadSet" -> <<"BadSet", "set", "object">>
      [] OTHER -> <<cls, "object">>

\* the runtime-checkable protocols whose members the class itself carries
\* (NamedTupleProtocol: _field_defaults, _fields, _asdict;
\*  DataclassProtocol: __dataclass_fields__)
ProtocolsOf(cls) ==
    CASE cls \in {"Point", "Duck"} -> <<"NamedTupleProtocol", "Protocol", "Generic">>
      [] cls = "Rec" -> <<"DataclassProtocol", "Protocol", "Generic">>
      [] OTHER -> <<>>

\* a resolution order that walks the nominal bases before the protocols
ComposeMroBasesFirst(cls) == Mro(cls) \o ProtocolsOf(cls)

\* the resolution order singledispatch walks: the class, the protocols it
\* introduces, then its remaining bases
ComposeMro(cls) == <<cls>> \o ProtocolsOf(cls) \o Tail(Mro(cls))


\* the values serialize is called with
Values ==
    {"pt", "lvl", "scolor", "ColorCls", "fs", "badset", "rec", "fakedc", "duck",
     "badstr", "badboth", "exitstr", "hostile", "extab"}

\* type(obj)
TypeOf(x) ==
    CASE x = "pt" -> "Point"
      [] x = "lvl" -> "Level"
      [] x = "scolor" -> "StrColor"
      [] x = "ColorCls" -> "EnumType"
      [] x = "fs" -> "frozenset"
      [] x = "badset" -> "BadSet"
      [] x = "rec" -> "Rec"
      [] x = "fakedc" -> "FakeDc"
      [] x = "duck" -> "Duck"
      [] x = "hostile" -> "Hostile"
      [] x = "extab" -> "ExtObj"
      [] OTHER -> "Opaque"

\* isinstance(x, cls) for a nominal class
IsInstance(x, cls) == cls \in Range(Mro(TypeOf(x)))

IsInstanceAny(x, classes) == \E c \in classes : IsInstance(x, c)

\* attribute lookup on the value: "yes", "no", or "raise" when the lookup
\* itself fails with something other than AttributeError
HasAttr(x, attr) ==
    CASE x = "hostile" -> "raise"
      [] attr \in {"_field_defaults", "_fields", "_asdict"} ->
            IF x \in {"pt", "duck"} THEN "yes" ELSE "no"
      [] attr = "__dataclass_fields__" ->
            IF x \in {"rec", "fakedc"} THEN "yes" ELSE "no"
      [] OTHER -> "no"

\* outcome of str(obj) and of repr(obj): "ok", "exception" (an Exception)
\* or "exit" (a BaseException that is not an Exception)
StrOutcome(x) ==
    CASE x \in {"badstr", "badboth"} -> "exception"
      [] x = "exitstr" -> "exit"
      [] OTHER -> "ok"

ReprOutcome(x) ==
    CASE x = "badboth" -> "exception"
      [] OTHER -> "ok"

\* the class a value denotes when the value is itself a class
ClassDenoted(x) ==
    CASE x = "ColorCls" -> "Color"
      [] OTHER -> "none"

\* values the extension recognizers accept
ExtTraits(x) ==
    CASE x \in {"extab", "hostile", "fs"} -> {"a", "b"}
      [] OTHER -> {}

\* --------------------------------------------------------------- outcomes
Return(v) == [kind |-> "return", val |-> v, exc |-> "none"]
Raise(e) == [kind |-> "raise", val |-> <<>>, exc |-> e]

\* ------------------------------------------------------------ recognizers
\* all(hasattr(obj, _) for _ in attr): "true", "false" or "raise"
RECURSIVE AllHasAttr(_, _, _)
AllHasAttr(x, attrs, n) ==
    IF n > Len(attrs) THEN "true"
    ELSE LET h == HasAttr(x, attrs[n])
         IN  IF h = "raise" THEN "raise"
             ELSE IF h = "no" THEN "false"
             ELSE AllHasAttr(x, attrs, n + 1)

Truth(b) == IF b THEN "true" ELSE "false"

\* the body of recognizer k on obj: "true", "false", or "raise" when the
\* check fails
RecognizerBody(k, x) ==
    CASE k = "use_type_default" -> Truth(IsInstance(x, "type"))
      [] k = "use_builtin_default" ->
            Truth(IsInstanceAny(x, {"int", "float", "bool", "str", "list", "dict", "tuple"}))
      [] k = "use_namedtuple_default" ->
            IF IsInstance(x, "tuple")
            THEN AllHasAttr(x, <<"_field_defaults", "_fields", "_asdict">>, 1)
            ELSE "false"
      [] k = "use_set_default" -> Truth(IsInstanceAny(x, {"set", "frozenset", "Set"}))
      [] k = "use_enum_default" ->
            Truth(\/ IsInstanceAny(x, {"Enum", "EnumType"})
                  \/ (IsInstance(x, "type") /\ "Enum" \in Range(Mro(ClassDenoted(x))))
                  \/ ClassDenoted(x) = "EnumType")
      [] k = "use_enum_meta_default" -> Truth(ClassDenoted(x) = "EnumType")
      [] k = "use_enum_type_default" -> Truth(ClassDenoted(x) = "EnumType")
      [] k = "use_int_enum_default" -> Truth(IsInstance(x, "IntEnum"))
      [] k = "use_dataclass_default" ->
            LET h == HasAttr(x, "__dataclass_fields__")
            IN  IF h = "raise" THEN "raise"
                ELSE Truth(h = "yes" /\ ~IsInstance(x, "type"))
      [] k = "use_ext_a" -> Truth("a" \in ExtTraits(x))
      [] k = "use_ext_b" -> Truth("b" \in ExtTraits(x))
      [] OTHER -> Truth(IsInstance(x, "Plain"))

\* k(obj), tabulated over the recognizers and the values
RecognizeTable == [k \in AllRecognizers |-> [x \in Values |-> RecognizerBody(k, x)]]

Recognize(k, x) == RecognizeTable[k][x]

\* ------------------------------------------------------------- converters
\* the body of converter v on obj: the reduced form it returns, or what it
\* raises
ConverterBody(v, x) ==
    CASE v = "type_default" ->
            IF IsInstance(x, "type") THEN Return(<<"name", x>>)
            ELSE Raise("AttributeError")
      [] v = "builtin_default" -> Return(<<"self", x>>)
      [] v = "namedtuple_default" ->
            IF HasAttr(x, "_asdict") = "yes" THEN Return(<<"asdict", x>>)
            ELSE Raise("AttributeError")
      [] v = "set_default" ->
            IF x = "badset" THEN Raise("RuntimeError")
            ELSE IF x \in {"fs", "pt", "scolor", "ColorCls"} THEN Return(<<"list", x>>)
            ELSE Raise("TypeError")
      [] v \in {"enum_default", "int_enum_default"} ->
            IF IsInstance(x, "Enum") THEN Return(<<"value", x>>)
            ELSE Raise("AttributeError")
      [] v \in {"enum_meta_default", "enum_type_default"} ->
            IF x = "ColorCls" THEN Return(<<"member_values", x>>)
            ELSE Raise("TypeError")
      [] v = "dataclass_default" ->
            IF x = "rec" THEN Return(<<"fields", x>>)
            ELSE Raise("TypeError")
      [] v = "ext_a" -> Return(<<"ext_a", x>>)
      [] v = "ext_b" -> Return(<<"ext_b", x>>)
      [] OTHER -> Return(<<"plain", x>>)

\* v(obj), tabulated over the converters and the values
ConvertTable == [v \in Converters |-> [x \in Values |-> ConverterBody(v, x)]]

Convert(v, x) == ConvertTable[v][x]

\* ------------------------------------------------------ fallback converter
Sentinel == <<"const", "__failed_to_encode__">>

\* a fallback converter without the guards: a failing str propagates
unknown_default_unguarded(x) ==
    IF StrOutcome(x) = "ok" THEN Return(<<"str", x>>) ELSE Raise("ValueError")

\* a fallback converter that skips repr: a failing str yields the sentinel
unknown_default_no_repr(x) ==
    IF StrOutcome(x) = "ok" THEN Return(<<"str", x>>)
    ELSE IF StrOutcome(x) = "exit" THEN Raise("SystemExit")
    ELSE Return(Sentinel)

\* try str(obj), then repr(obj), each under `except Exception`, then the
\* sentinel
unknown_default(x) ==
    IF StrOutcome(x) = "ok" THEN Return(<<"str", x>>)
    ELSE IF StrOutcome(x) = "exit" THEN Raise("SystemExit")
    ELSE IF ReprOutcome(x) = "ok" THEN Return(<<"repr", x>>)
    ELSE IF ReprOutcome(x) = "exit" THEN Raise("SystemExit")
    ELSE Return(Sentinel)

\* ---------------------------------------------------------- dispatch body
\* what one call did: its outcome, the recognizers it called and the
\* converters it invoked, in order
Out(res, scanned, invoked) == [res |-> res, scanned |-> scanned, invoked |-> invoked]

\* a scan that ignores the raise flag: an exhausted scan always degrades
RECURSIVE ScanLenient(_, _, _, _, _)
ScanLenient(typemap, x, raise, n, scanned) ==
    IF n > Len(typemap)
    THEN Out(unknown_default(x), scanned, <<>>)
    ELSE LET k == typemap[n].k
             v == typemap[n].v
             r == Recognize(k, x)
         IN  IF r = "raise" THEN Out(Raise("ValueError"), Append(scanned, k), <<>>)
             ELSE IF r = "true" THEN Out(Convert(v, x), Append(scanned, k), <<v>>)
             ELSE ScanLenient(typemap, x, raise, n + 1, Append(scanned, k))

\* the loop of the undecorated serialize over TYPEMAP.items(), from pair n
RECURSIVE Scan(_, _, _, _, _)
Scan(typemap, x, raise, n, scanned) ==
    IF n > Len(typemap)
    THEN Out(IF raise THEN Raise("NotImplementedError") ELSE unknown_default(x),
             scanned, <<>>)
    ELSE LET k == typemap[n].k
             v == typemap[n].v
             r == Recognize(k, x)
         IN  IF r = "raise" THEN Out(Raise("ValueError"), Append(scanned, k), <<>>)
             ELSE IF r = "true" THEN Out(Convert(v, x), Append(scanned, k), <<v>>)
             ELSE Scan(typemap, x, raise, n + 1, Append(scanned, k))

\* the pair's converter declares a type the dispatch facility cannot key
NotKeyed(p) == Annotation(p.v).kind \notin {"class", "union"}

\* a scan over the non-keyable pairs only
serialize_default_fallback_only(typemap, x, raise) ==
    Scan(SelectSeq(typemap, NotKeyed), x, raise, 1, <<>>)

\* a scan over the catalog in reverse order
serialize_default_reversed(typemap, x, raise) ==
    Scan([n \in 1..Len(typemap) |-> typemap[Len(typemap) + 1 - n]], x, raise, 1, <<>>)

\* the function registered for `object`
serialize_default(typemap, x, raise) == Scan(typemap, x, raise, 1, <<>>)

\* resolution by the exact class only, without walking its bases
FindImplExact(reg, mro, n) ==
    IF mro[1] \in DOMAIN reg THEN reg[mro[1]] ELSE "serialize"

\* singledispatch resolution: the first class of the resolution order that
\* has an entry in the registry
RECURSIVE FindImpl(_, _, _)
FindImpl(reg, mro, n) ==
    IF n > Len(mro) THEN "serialize"
    ELSE IF mro[n] \in DOMAIN reg THEN reg[mro[n]]
    ELSE FindImpl(reg, mro, n + 1)

\* the class whose registry entry FindImpl takes
RECURSIVE MatchedClass(_, _, _)
MatchedClass(reg, mro, n) ==
    IF n > Len(mro) THEN "object"
    ELSE IF mro[n] \in DOMAIN reg THEN mro[n]
    ELSE MatchedClass(reg, mro, n + 1)

\* a dispatcher that swallows a converter's failure when the flag is cleared
InvokeGuarded(impl, typemap, x, raise) ==
    LET o == IF impl = "serialize" THEN serialize_default(typemap, x, raise)
             ELSE Out(Convert(impl, x), <<>>, <<impl>>)
    IN  IF o.res.kind = "raise" /\ o.invoked # <<>> /\ ~raise
        THEN Out(unknown_default(x), o.scanned, o.invoked)
        ELSE o

\* impl(obj, _raise=raise) for the resolved implementation
Invoke(impl, typemap, x, raise) ==
    IF impl = "serialize" THEN serialize_default(typemap, x, raise)
    ELSE Out(Convert(impl, x), <<>>, <<impl>>)

\* ------------------------------------------------------------------ state
VARIABLES
    TYPEMAP,            \* the catalog: sequence of pairs, in mapping order
    registry,           \* serialize.registry: class -> implementation
    excepted_handlers,  \* _excepted_handlers: pairs whose registration raised TypeError
    validation_cache,   \* _validation_cache: defaultdict(bool), function -> bool
    pc,                 \* "validate", "register", "done" or "failed"
    idx,                \* position of the running loop in TYPEMAP
    err,                \* the error that ended _register_singledispatch
    dispatch_cache,     \* singledispatch's memo of resolved classes
    calls,              \* serialize calls started
    th                  \* per thread: the call in progress or last finished

vars ==
    <<TYPEMAP, registry, excepted_handlers, validation_cache, pc, idx, err,
      dispatch_cache, calls, th>>

\* the state serialize dispatches against
RegistryState == <<TYPEMAP, registry, excepted_handlers, validation_cache>>

NoErr == [type |-> "none", fn |-> "none"]
NoOut == Out(Raise("none"), <<>>, <<>>)
Idle == [pc |-> "idle", obj |-> "none", raise |-> TRUE, impl |-> "none", out |-> NoOut]

Init ==
    /\ TYPEMAP \in Catalogs
    /\ registry = ("object" :> "serialize")
    /\ excepted_handlers = <<>>
    /\ validation_cache = [f \in {} |-> FALSE]
    /\ pc = "validate"
    /\ idx = 1
    /\ err = NoErr
    /\ dispatch_cache = [c \in {} |-> "none"]
    /\ calls = 0
    /\ th = [t \in Threads |-> Idle]

\* ------------------------------------------------------------- validation
\* reading defaultdict(bool)[fn] inserts False for a missing key
Touch(cache, fn) ==
    IF fn \in DOMAIN cache THEN cache ELSE (fn :> FALSE) @@ cache

\* 'obj' in get_type_hints(fn)
HasObjHint(fn) == Annotation(fn).kind # "missing"

\* a validation that skips every function the cache has an entry for, marked
\* or not
ValidateFnSkipKnown(cache, fn) ==
    IF fn \in DOMAIN cache THEN [cache |-> cache, bad |-> "none"]
    ELSE IF ~HasObjHint(fn) THEN [cache |-> (fn :> FALSE) @@ cache, bad |-> fn]
    ELSE [cache |-> (fn :> TRUE) @@ cache, bad |-> "none"]

\* one `if _validation_cache[fn] is not True: _validate_type_handler(fn)`:
\* the cache afterwards and the function MissingAnnotationError names
ValidateFn(cache, fn) ==
    LET c1 == Touch(cache, fn)
    IN  IF c1[fn] = TRUE THEN [cache |-> c1, bad |-> "none"]
        ELSE IF ~HasObjHint(fn) THEN [cache |-> c1, bad |-> fn]
        ELSE [cache |-> [c1 EXCEPT ![fn] = TRUE], bad |-> "none"]

\* a validation pass that looks at the converters only
ValidatePairConverterOnly(cache, pair) == ValidateFn(cache, pair.v)

\* the body of the loop of _validate_typemap: the converter, then the recognizer
ValidatePair(cache, pair) ==
    LET r1 == ValidateFn(cache, pair.v)
    IN  IF r1.bad # "none" THEN r1 ELSE ValidateFn(r1.cache, pair.k)

ValidateStep ==
    /\ pc = "validate"
    /\ idx <= Len(TYPEMAP)
    /\ LET r == ValidatePair(validation_cache, TYPEMAP[idx])
       IN  /\ validation_cache' = r.cache
           /\ IF r.bad # "none"
              THEN /\ pc' = "failed"
                   /\ err' = [type |-> "MissingAnnotationError", fn |-> r.bad]
                   /\ idx' = idx
              ELSE /\ err' = err
                   /\ IF idx = Len(TYPEMAP)
                      THEN pc' = "register" /\ idx' = 1
                      ELSE pc' = pc /\ idx' = idx + 1
    /\ UNCHANGED <<TYPEMAP, registry, excepted_handlers, dispatch_cache, calls, th>>

\* ----------------------------------------------------------- registration
\* registration that accepts single classes only
IsValidDispatchTypeClassOnly(ann) == ann.kind = "class"

\* singledispatch.register accepts a class or a union of classes
IsValidDispatchType(ann) == ann.kind \in {"class", "union"}

\* registration that keeps the entry a class already has
RegisterKeepFirst(reg, ann, v) ==
    [c \in DOMAIN reg \cup Range(ann.members) |->
        IF c \in DOMAIN reg THEN reg[c] ELSE v]

\* registry[cls] = func for the class, or for every member of the union
Register(reg, ann, v) ==
    [c \in DOMAIN reg \cup Range(ann.members) |->
        IF c \in Range(ann.members) THEN v ELSE reg[c]]

\* _excepted_handlers[k] = v on a dict: a key already present keeps its place
SetItem(excepted, pair) ==
    IF \E n \in 1..Len(excepted) : excepted[n].k = pair.k
    THEN [n \in 1..Len(excepted) |->
            IF excepted[n].k = pair.k THEN pair ELSE excepted[n]]
    ELSE Append(excepted, pair)

\* the body of the loop of _register_singledispatch
RegisterPair(reg, excepted, pair) ==
    LET typ == Annotation(pair.v)
    IN  IF IsValidDispatchType(typ)
        THEN [registry |-> Register(reg, typ, pair.v), excepted |-> excepted]
        ELSE [registry |-> reg, excepted |-> SetItem(excepted, pair)]

RegisterStep ==
    /\ pc = "register"
    /\ idx <= Len(TYPEMAP)
    /\ LET r == RegisterPair(registry, excepted_handlers, TYPEMAP[idx])
       IN  /\ registry' = r.registry
           /\ excepted_handlers' = r.excepted
    /\ IF idx = Len(TYPEMAP)
       THEN pc' = "done" /\ idx' = idx
       ELSE pc' = pc /\ idx' = idx + 1
    /\ UNCHANGED <<TYPEMAP, validation_cache, err, dispatch_cache, calls, th>>

\* _register_singledispatch() called again, after a build that completed or
\* failed: validation starts over against the module's cache, table and chain
Rebuild ==
    /\ pc \in {"done", "failed"}
    /\ pc' = "validate"
    /\ idx' = 1
    /\ err' = NoErr
    /\ UNCHANGED <<TYPEMAP, registry, excepted_handlers, validation_cache,
                   dispatch_cache, calls, th>>

\* ------------------------------------------------------------------ calls
\* memoization written into the registry instead of the memo
MemoizeInRegistry(reg, cache, cls, impl) ==
    [registry |-> (cls :> impl) @@ reg, dispatch_cache |-> cache]

\* a memo that is not keyed by the class: any memoized implementation is a hit
LookupShared(cache, cls) ==
    IF DOMAIN cache # {} THEN cache[CHOOSE c \in DOMAIN cache : TRUE] ELSE "miss"

\* dispatch_cache[cls] = impl
Memoize(reg, cache, cls, impl) ==
    [registry |-> reg, dispatch_cache |-> (cls :> impl) @@ cache]

\* the memo lookup of singledispatch's dispatch(cls): the implementation, or
\* "miss"
Lookup(cache, cls) == IF cls \in DOMAIN cache THEN cache[cls] ELSE "miss"

\* serialize(x, _raise=r) enters the wrapper and looks the class up
Call(t, x, r) ==
    /\ pc = "done"
    /\ calls < MaxCalls
    /\ th[t].pc \in {"idle", "returned"}
    /\ LET impl == Lookup(dispatch_cache, TypeOf(x))
       IN  th' = [th EXCEPT ![t] =
                    [pc |-> IF impl = "miss" THEN "missed" ELSE "resolved",
                     obj |-> x, raise |-> r, impl |-> impl, out |-> NoOut]]
    /\ calls' = calls + 1
    /\ UNCHANGED <<TYPEMAP, registry, excepted_handlers, validation_cache, pc, idx,
                   err, dispatch_cache>>

\* on a miss the wrapper resolves the class against the registry and
\* memoizes the result
Resolve(t) ==
    /\ th[t].pc = "missed"
    /\ LET cls == TypeOf(th[t].obj)
           impl == FindImpl(registry, ComposeMro(cls), 1)
           m == Memoize(registry, dispatch_cache, cls, impl)
       IN  /\ th' = [th EXCEPT ![t].pc = "resolved", ![t].impl = impl]
           /\ registry' = m.registry
           /\ dispatch_cache' = m.dispatch_cache
    /\ UNCHANGED <<TYPEMAP, excepted_handlers, validation_cache, pc, idx, err, calls>>

\* the resolved implementation runs to its return or its failure
Run(t) ==
    /\ th[t].pc = "resolved"
    /\ th' = [th EXCEPT ![t].pc = "returned",
                        ![t].out = Invoke(th[t].impl, TYPEMAP, th[t].obj, th[t].raise)]
    /\ UNCHANGED <<TYPEMAP, registry, excepted_handlers, validation_cache, pc, idx,
                   err, dispatch_cache, calls>>

Next ==
    \/ ValidateStep
    \/ RegisterStep
    \/ \E t \in Threads, x \in Values, r \in BOOLEAN : Call(t, x, r)
    \/ \E t \in Threads : Resolve(t)
    \/ \E t \in Threads : Run(t)

Spec == Init /\ [][Next]_vars

\* registry construction run any number of times, no call in flight
NextRebuild ==
    \/ ValidateStep
    \/ RegisterStep
    \/ Rebuild

SpecRebuild == Init /\ [][NextRebuild]_vars

\* ============================================================== properties
Returned(t) == th[t].pc = "returned"

\* the classes keyed in the direct table (every entry but the one of `object`)
DirectKeys == DOMAIN registry \ {"object"}

InDirectTable(v) == \E c \in DirectKeys : registry[c] = v

\* no class of the value's resolution order is keyed
NoDirectMatch(x) == \A c \in Range(ComposeMro(TypeOf(x))) : c \notin DirectKeys

\* positions of the catalog whose recognizer accepts x
Matching(x) == {n \in 1..Len(TYPEMAP) : Recognize(TYPEMAP[n].k, x) = "true"}

FirstMatching(x) == CHOOSE n \in Matching(x) : \A m \in Matching(x) : n <= m

\* some recognizer placed before position n fails on x
RaisesBefore(x, n) == \E m \in 1..(n - 1) : Recognize(TYPEMAP[m].k, x) = "raise"

\* ---------------------------------------------------------------------- C1
\* C1: for every class T keyed in the direct table and every value whose class
\* has T in its resolution order with no keyed class before T, the finished
\* call returned exactly what T's converter gives on the value, whatever the
\* recognizers say about the value and whatever the raise flag.
C1_DirectConverterWins ==
    \A t \in Threads :
        Returned(t) =>
            LET x == th[t].obj
                mro == ComposeMro(TypeOf(x))
            IN  \A T \in DirectKeys :
                    ( /\ T \in Range(mro)
                      /\ \A K \in DirectKeys :
                            K \in Range(mro) => IndexOf(mro, T) <= IndexOf(mro, K) )
                    => th[t].out.res = Convert(registry[T], x)

\* an IntEnum member converted by int_enum_default although the recognizer of
\* builtin_default, earlier in the catalog, accepts it too
C1_Witness ==
    \E t \in Threads :
        /\ Returned(t)
        /\ th[t].obj = "lvl"
        /\ registry["IntEnum"] = "int_enum_default"
        /\ Recognize("use_builtin_default", "lvl") = "true"
        /\ th[t].out.res = Return(<<"value", "lvl">>)

\* ---------------------------------------------------------------------- C2
\* the recognizers of the pairs collected in the fallback chain that accept x
FallbackMatching(x) ==
    {n \in 1..Len(excepted_handlers) : Recognize(excepted_handlers[n].k, x) = "true"}

\* the finished call returned what the converter of the first accepting
\* recognizer of the catalog gives, and invoked no other converter
FirstMatchConverted(t) ==
    LET x == th[t].obj
        v == TYPEMAP[FirstMatching(x)].v
    IN  /\ th[t].out.res = Convert(v, x)
        /\ th[t].out.invoked = <<v>>

Unsupported == Raise("NotImplementedError")

\* C3 as stated: with the raise flag set the call fails with the
\* unsupported-type error exactly when no recognizer of the catalog accepts
\* the value.
C3_Original ==
    \A t \in Threads :
        (Returned(t) /\ th[t].raise)
        => (th[t].out.res = Unsupported <=> Matching(th[t].obj) = {})

\* C3 amended: with the raise flag set the call fails with the unsupported-type
\* error exactly when no keyed class resolves for the value and every
\* recognizer of the catalog returns false on it.
C3_UnsupportedIff ==
    \A t \in Threads :
        (Returned(t) /\ th[t].raise)
        => ( th[t].out.res = Unsupported
             <=> ( /\ NoDirectMatch(th[t].obj)
                   /\ \A n \in 1..Len(TYPEMAP) :
                         Recognize(TYPEMAP[n].k, th[t].obj) = "false" ) )

\* an unrecognised object called with the flag set
C3_Witness ==
    \E t \in Threads :
        /\ Returned(t)
        /\ th[t].raise
        /\ th[t].obj = "badstr"
        /\ NoDirectMatch("badstr")
        /\ th[t].out.res = Unsupported

\* ---------------------------------------------------------------------- C4
\* C4 as stated: with the raise flag cleared every call returns a value.
C4_Original ==
    \A t \in Threads :
        (Returned(t) /\ ~th[t].raise) => th[t].out.res.kind = "return"

\* str or repr of the value ends with a BaseException that is no Exception
\* before one of them succeeds
ConversionExits(x) ==
    \/ StrOutcome(x) = "exit"
    \/ (StrOutcome(x) = "exception" /\ ReprOutcome(x) = "exit")

\* C4 amended: with the raise flag cleared the call never fails with the
\* unsupported-type error, and it returns a value unless the selected
\* converter raises, a scanned recognizer raises, or str/repr of an
\* unrecognised value ends with a BaseException that is no Exception; each of
\* these failures propagates.
C4_TotalUnlessHandlerFails ==
    \A t \in Threads :
        (Returned(t) /\ ~th[t].raise)
        => LET x == th[t].obj
               o == th[t].out
           IN  /\ o.res # Unsupported
               /\ o.res.kind = "raise"
                  => \/ /\ o.invoked # <<>>
                        /\ o.res = Convert(o.invoked[1], x)
                     \/ /\ o.invoked = <<>>
                        /\ o.scanned # <<>>
                        /\ Recognize(o.scanned[Len(o.scanned)], x) = "raise"
                     \/ /\ o.invoked = <<>>
                        /\ Matching(x) = {}
                        /\ ConversionExits(x)

\* an unrecognised value whose str and repr both raise yields the sentinel
C4_Witness ==
    \E t \in Threads :
        /\ Returned(t)
        /\ ~th[t].raise
        /\ th[t].obj = "badboth"
        /\ th[t].out.res = Return(Sentinel)

\* ---------------------------------------------------------------------- C5
\* the call reached the fallback converter: flag cleared, nothing resolved,
\* every recognizer returned false
FellThrough(t) ==
    /\ Returned(t)
    /\ ~th[t].raise
    /\ NoDirectMatch(th[t].obj)
    /\ \A n \in 1..Len(TYPEMAP) : Recognize(TYPEMAP[n].k, th[t].obj) = "false"

\* str when it succeeds, else repr when it succeeds, else the sentinel
Degraded(x) ==
    IF StrOutcome(x) = "ok" THEN Return(<<"str", x>>)
    ELSE IF ReprOutcome(x) = "ok" THEN Return(<<"repr", x>>)
    ELSE Return(Sentinel)

\* C5 as stated: the fallback converter never raises, whatever the failure of
\* the value's conversions, and yields str, else repr, else the sentinel.
C5_Original ==
    \A t \in Threads : FellThrough(t) => th[t].out.res = Degraded(th[t].obj)

\* C5 amended: the same for conversions that fail with an Exception; a
\* conversion that ends with a BaseException that is no Exception is not
\* caught, and the fallback converter raises it.
C5_DegradesOnException ==
    \A t \in Threads :
        FellThrough(t)
        => IF ConversionExits(th[t].obj)
           THEN th[t].out.res = Raise("SystemExit")
           ELSE th[t].out.res = Degraded(th[t].obj)

\* str raises, repr succeeds: the representational form is returned
C5_Witness ==
    \E t \in Threads :
        /\ FellThrough(t)
        /\ th[t].obj = "badstr"
        /\ th[t].out.res = Return(<<"repr", "badstr">>)

\* ---------------------------------------------------------------------- C6
InitialRegistry == ("object" :> "serialize")

\* positions of the catalog with a function that declares no type for `obj`
Undeclared ==
    {n \in 1..Len(TYPEMAP) :
        Annotation(TYPEMAP[n].k).kind = "missing" \/ Annotation(TYPEMAP[n].v).kind = "missing"}

FirstUndeclared == CHOOSE n \in Undeclared : \A m \in Undeclared : n <= m

\* the function the failure names: of the first such pair, the converter when
\* it is undeclared, else the recognizer
FirstUndeclaredFn ==
    IF Annotation(TYPEMAP[FirstUndeclared].v).kind = "missing"
    THEN TYPEMAP[FirstUndeclared].v
    ELSE TYPEMAP[FirstUndeclared].k

NothingRegistered == registry = InitialRegistry /\ excepted_handlers = <<>>

\* C6: a catalog with an undeclared recognizer or converter never gets past
\* validation and registers nothing; the failure is MissingAnnotationError
\* naming the undeclared function; and whenever anything has been registered,
\* every function of the catalog has been validated.
C6_ValidationBeforeRegistration ==
    /\ Undeclared # {}
       => /\ pc \in {"validate", "failed"}
          /\ NothingRegistered
          /\ pc = "validate" => idx <= FirstUndeclared
    /\ pc = "failed"
       => /\ Undeclared # {}
          /\ err = [type |-> "MissingAnnotationError", fn |-> FirstUndeclaredFn]
          /\ NothingRegistered
    /\ ~NothingRegistered
       => \A n \in 1..Len(TYPEMAP) :
             /\ TYPEMAP[n].k \in DOMAIN validation_cache
             /\ TYPEMAP[n].v \in DOMAIN validation_cache
             /\ validation_cache[TYPEMAP[n].k]
             /\ validation_cache[TYPEMAP[n].v]

\* construction failed on an undeclared recognizer after a valid pair of the
\* extension had been validated
C6_Witness ==
    /\ pc = "failed"
    /\ err = [type |-> "MissingAnnotationError", fn |-> "use_untyped"]
    /\ "ext_a" \in DOMAIN validation_cache
    /\ NothingRegistered

\* ---------------------------------------------------------------------- C7
\* the converter the call selects: the one of the resolved keyed class, else
\* the one of the first accepting recognizer the scan reaches
SelectedConverter(x) ==
    IF ~NoDirectMatch(x)
    THEN registry[MatchedClass(registry, ComposeMro(TypeOf(x)), 1)]
    ELSE IF Matching(x) # {} /\ ~RaisesBefore(x, FirstMatching(x))
    THEN TYPEMAP[FirstMatching(x)].v
    ELSE "none"

\* C7: when the selected converter raises on the value, the call raises that
\* same failure, whether the raise flag is set or cleared, and the fallback
\* converter's result is not returned in its place.
C7_ConverterFailurePropagates ==
    \A t \in Threads :
        Returned(t) =>
            LET x == th[t].obj
                c == SelectedConverter(x)
            IN  (c # "none" /\ Convert(c, x).kind = "raise")
                => /\ th[t].out.res = Convert(c, x)
                   /\ th[t].out.res.kind = "raise"
                   /\ th[t].out.invoked = <<c>>

\* with the flag cleared: a set whose iteration fails (keyed converter) or a
\* value with a stray __dataclass_fields__ (scanned converter)
C7_Witness ==
    \E t \in Threads :
        /\ Returned(t)
        /\ ~th[t].raise
        /\ \/ th[t].obj = "badset" /\ th[t].out.res = Raise("RuntimeError")
           \/ th[t].obj = "fakedc" /\ th[t].out.res = Raise("TypeError")

\* ---------------------------------------------------------------------- C8
\* the converter declares one nominal class
DeclaresSingleConcrete(v) ==
    /\ Annotation(v).kind = "class"
    /\ Annotation(v).members[1] \notin {"NamedTupleProtocol", "DataclassProtocol"}

\* the fallback chain lists pairs of the catalog in catalog order
InCatalogOrder(chain) ==
    /\ \A n \in 1..Len(chain) : IndexOf(TYPEMAP, chain[n]) > 0
    /\ \A m, n \in 1..Len(chain) :
          m < n => IndexOf(TYPEMAP, chain[m]) < IndexOf(TYPEMAP, chain[n])

\* C8 as stated: after a successful build every pair is in exactly one
\* partition: in the direct table when its converter declares a single
\* concrete type, and otherwise (a union, a structural trait, anything not
\* keyable) in the fallback chain and not in the direct table; the chain is
\* in catalog order.
C8_Original ==
    pc = "done"
    => /\ \A n \in 1..Len(TYPEMAP) :
             LET p == TYPEMAP[n]
             IN  IF DeclaresSingleConcrete(p.v)
                 THEN InDirectTable(p.v) /\ p \notin Range(excepted_handlers)
                 ELSE p \in Range(excepted_handlers) /\ ~InDirectTable(p.v)
       /\ InCatalogOrder(excepted_handlers)

\* the declared type is a class or a union of classes
Keyable(v) == Annotation(v).kind \in {"class", "union"}

\* the pair at position n is keyable and declares class c
Declares(n, c) ==
    Keyable(TYPEMAP[n].v) /\ c \in Range(Annotation(TYPEMAP[n].v).members)

\* C8 amended: after a successful build the fallback chain holds exactly the
\* pairs whose converter's declared type is neither a class nor a union of
\* classes, in catalog order, and none of their converters is in the direct
\* table; every other pair is outside the chain, and the direct table maps
\* each class such a pair declares (each member of a union, protocol classes
\* included) to the converter of the last pair of the catalog declaring it,
\* and holds nothing else.
C8_Partition ==
    pc = "done"
    => /\ \A n \in 1..Len(TYPEMAP) :
             LET p == TYPEMAP[n]
             IN  IF Keyable(p.v)
                 THEN /\ p \notin Range(excepted_handlers)
                      /\ \A c \in Range(Annotation(p.v).members) :
                            /\ c \in DirectKeys
                            /\ \/ registry[c] = p.v
                               \/ \E m \in (n + 1)..Len(TYPEMAP) : Declares(m, c)
                 ELSE /\ p \in Range(excepted_handlers)
                      /\ ~InDirectTable(p.v)
       /\ \A c \in DirectKeys :
             \E n \in 1..Len(TYPEMAP) : Declares(n, c) /\ registry[c] = TYPEMAP[n].v
       /\ InCatalogOrder(excepted_handlers)
       /\ \A m \in 1..Len(excepted_handlers) : ~Keyable(excepted_handlers[m].v)

\* a build that keyed the union of builtin_default and the protocol of
\* namedtuple_default, and collected two extension pairs in the chain
C8_Witness ==
    /\ pc = "done"
    /\ Len(excepted_handlers) = 2
    /\ registry["tuple"] = "builtin_default"
    /\ registry["int"] = "builtin_default"
    /\ registry["EnumType"] = "enum_type_default"
    /\ registry["NamedTupleProtocol"] = "namedtuple_default"

\* ---------------------------------------------------------------------- C9
\* C9: once construction has completed no step of any serialize call changes
\* the catalog, the direct table, the fallback chain or the validation cache.
C9_DispatchReadOnly ==
    [][pc = "done" => RegistryState' = RegistryState]_vars

\* calls have finished, one with a value, one with a failure, and the memo
\* of resolved classes has been filled
C9_Witness ==
    /\ pc = "done"
    /\ DOMAIN dispatch_cache # {}
    /\ \E t \in Threads : Returned(t) /\ th[t].out.res.kind = "return"
    /\ \E t \in Threads : Returned(t) /\ th[t].out.res.kind = "raise"

\* --------------------------------------------------------------------- C10
\* what serialize(x, _raise=r) gives when it runs alone against the registry
Alone(x, r) == Invoke(FindImpl(registry, ComposeMro(TypeOf(x)), 1), TYPEMAP, x, r)

\* C10: every call finished by a thread, however its steps interleaved with
\* the other threads' calls, ended as the same call run alone ends.
C10_ConcurrentCallsAgree ==
    \A t \in Threads :
        Returned(t) => th[t].out = Alone(th[t].obj, th[t].raise)

\* two calls in flight on different classes: one finished while the other,
\* having missed the memo before the first filled it, has yet to resolve
C10_Witness ==
    \E t, u \in Threads :
        /\ t # u
        /\ Returned(t)
        /\ th[u].pc = "missed"
        /\ TypeOf(th[t].obj) # TypeOf(th[u].obj)
        /\ TypeOf(th[t].obj) \in DOMAIN dispatch_cache

\* --------------------------------------------------------------------- C11
\* a tuple subtype carrying _fields, _field_defaults and _asdict
FixedFieldTuple(x) ==
    /\ IsInstance(x, "tuple")
    /\ AllHasAttr(x, <<"_field_defaults", "_fields", "_asdict">>, 1) = "true"

DeclaringPositions(c) == {n \in 1..Len(TYPEMAP) : Declares(n, c)}

\* the classes declared by two or more pairs of the catalog
DuplicateKeys ==
    {c \in UNION {Range(Annotation(TYPEMAP[n].v).members) : n \in 1..Len(TYPEMAP)} :
        Cardinality(DeclaringPositions(c)) >= 2}

LastDeclaringPosition(c) ==
    CHOOSE n \in DeclaringPositions(c) : \A m \in DeclaringPositions(c) : m <= n

\* C12: after the build, every class that the converters of two or more
\* catalog pairs declare is mapped by the direct table to the converter of the
\* last of those pairs in catalog order, and the build recorded no error; a
\* build that failed did so for an undeclared function, never for a duplicate.
C12_LastRegistrationWins ==
    /\ pc = "done"
       => /\ err = NoErr
          /\ \A c \in DuplicateKeys :
                /\ c \in DirectKeys
                /\ registry[c] = TYPEMAP[LastDeclaringPosition(c)].v
    /\ pc = "failed"
       => /\ err.type = "MissingAnnotationError"
          /\ ~HasObjHint(err.fn)

\* EnumType, declared by enum_meta_default and then by enum_type_default, is
\* keyed to enum_type_default after an error-free build
C12_Witness ==
    /\ pc = "done"
    /\ err = NoErr
    /\ "EnumType" \in DuplicateKeys
    /\ Declares(IndexOf(TYPEMAP, Pair("use_enum_meta_default", "enum_meta_default")), "EnumType")
    /\ TYPEMAP[LastDeclaringPosition("EnumType")].v = "enum_type_default"
    /\ registry["EnumType"] = "enum_type_default"

\* --------------------------------------------------------------------- C13
Marked(fn) == fn \in DOMAIN validation_cache /\ validation_cache[fn] = TRUE

\* the functions a validation has succeeded on, given how far the passes got:
\* both functions of every pair before the first undeclared one, and the
\* converter of that pair when it is the recognizer that is undeclared
SucceededUpTo(last) ==
    {TYPEMAP[n].k : n \in 1..(last - 1)} \cup {TYPEMAP[n].v : n \in 1..(last - 1)}
    \cup (IF last <= Len(TYPEMAP) /\ HasObjHint(TYPEMAP[last].v)
          THEN {TYPEMAP[last].v} ELSE {})

\* the cache marks exactly the functions a validation has succeeded on
CacheMarksValidated ==
    /\ \A fn \in DOMAIN validation_cache : validation_cache[fn] = TRUE => HasObjHint(fn)
    /\ pc \in {"register", "done"}
       => {fn \in DOMAIN validation_cache : Marked(fn)} = SucceededUpTo(Len(TYPEMAP) + 1)
    /\ pc = "failed"
       => /\ {fn \in DOMAIN validation_cache : Marked(fn)} = SucceededUpTo(idx)
          /\ ~Marked(err.fn)
    /\ pc = "validate"
       => /\ \A n \in 1..(idx - 1) : Marked(TYPEMAP[n].k) /\ Marked(TYPEMAP[n].v)
          /\ \A fn \in DOMAIN validation_cache :
                Marked(fn) => \E n \in 1..(Len(TYPEMAP) + 1) : fn \in SucceededUpTo(n)
    /\ Undeclared # {} => pc \in {"validate", "failed"}

\* a pass that reaches a pair with an undeclared function fails there, naming
\* it and leaving it unmarked, whatever earlier passes left in the cache
PassFailsOnUndeclared ==
    (pc = "validate" /\ idx \in Undeclared)
    => /\ pc' = "failed"
       /\ err' = [type |-> "MissingAnnotationError", fn |-> FirstUndeclaredFn]
       /\ ~validation_cache'[FirstUndeclaredFn]

\* C13: over any number of validation passes, a function is marked True in
\* the validation cache exactly when a validation of it has succeeded; a
\* function whose validation failed is never marked, and a pass skips only
\* marked functions, so every pass over a catalog with an undeclared function
\* fails at that function.
C13_CacheMarksValidated ==
    []CacheMarksValidated /\ [][PassFailsOnUndeclared]_vars

\* a later pass about to inspect the function an earlier pass failed on: the
\* cache holds an unmarked entry for it and marks the functions before it
C13_Witness ==
    /\ pc = "validate"
    /\ Undeclared # {}
    /\ idx = FirstUndeclared
    /\ FirstUndeclaredFn \in DOMAIN validation_cache
    /\ validation_cache[FirstUndeclaredFn] = FALSE
    /\ Marked("type_default")

\* --------------------------------------------------------------------- C14
\* positions of the catalog whose recognizer does not return false on x
Stopping(x) == {n \in 1..Len(TYPEMAP) : Recognize(TYPEMAP[n].k, x) # "false"}

\* where the scan over the catalog ends on x: the first recognizer that
\* accepts x or fails, or the last pair
StopPosition(x) ==
    IF Stopping(x) = {} THEN Len(TYPEMAP)
    ELSE CHOOSE n \in Stopping(x) : \A m \in Stopping(x) : n <= m

\* positions of keyed pairs whose recognizer accepts x
KeyedMatching(x) == {n \in Matching(x) : Keyable(TYPEMAP[n].v)}

\* C14: every finished call whose value resolves to no keyed class scanned the
\* recognizers of the catalog itself, in catalog order from its first pair,
\* keyed pairs included, up to the first that accepts the value (or fails), and
\* not the chain of non-keyable pairs; and when the recognizer of a keyed pair
\* accepts such a value, the call invoked the converter of the first accepting
\* pair, a keyed one, and did not report the value unsupported.
C14_ScanCoversWholeCatalog ==
    \A t \in Threads :
        (Returned(t) /\ NoDirectMatch(th[t].obj))
        => LET x == th[t].obj
               o == th[t].out
           IN  /\ o.scanned = [n \in 1..StopPosition(x) |-> TYPEMAP[n].k]
               /\ KeyedMatching(x) # {}
                  => /\ FirstMatching(x) \in KeyedMatching(x)
                     /\ o.invoked = <<TYPEMAP[FirstMatching(x)].v>>
                     /\ o.res = Convert(TYPEMAP[FirstMatching(x)].v, x)
                     /\ o.res # Unsupported

\* a frozenset, with set keyed but not frozenset, converted by set_default
\* under the raise flag although the chain of non-keyable pairs holds two
\* pairs whose recognizers accept it too
C14_Witness ==
    \E t \in Threads :
        /\ Returned(t)
        /\ th[t].raise
        /\ th[t].obj = "fs"
        /\ NoDirectMatch("fs")
        /\ registry["set"] = "set_default"
        /\ Len(excepted_handlers) = 2
        /\ FallbackMatching("fs") = {1, 2}
        /\ th[t].out.scanned = <<"use_type_default", "use_builtin_default",
                                 "use_namedtuple_default", "use_set_default">>
        /\ th[t].out.res = Return(<<"list", "fs">>)

====
